---- MODULE Spec2Model ----
(***************************************************************************)
(* Model of src/index.ts: the TokenCreate handler, the dispatch pipeline   *)
(* simulateAndBuyViaRouter, the multi-RPC broadcast submitRawTx, and the   *)
(* periodic nonce refresh, all sharing the object currentNonce.            *)
(*                                                                         *)
(* One action is one run-to-completion piece of JavaScript: the code       *)
(* between two await points.  Promise continuations that follow each other *)
(* in the same microtask flush (the last endpoint task settling            *)
(* Promise.allSettled, submitRawTx returning, and the continuation of      *)
(* simulateAndBuyViaRouter after `await submitRawTx`) touch the shared     *)
(* state in one piece and are one action.                                  *)
(***************************************************************************)
EXTENDS Integers, Sequences, FiniteSets, TLC

\* ---- bounds of the model ------------------------------------------------
MaxDispatch == 2      \* dispatch instances (qualifying events) explored
MaxOther == 1         \* non-qualifying events explored
NumEndpoints == 2     \* length of rpcProviders explored (9 in the source)
MaxExternal == 1      \* transactions of the account sent outside this process
InitialNonce == 3     \* getTransactionCount at start-up

Dispatches == 1..MaxDispatch
Endpoints == 1..NumEndpoints

\* ---- values ---------------------------------------------------------------
Hashes == {"hA", "hB"}
NoHash == ""
NoNonce == -1

TimeoutMsg == "Timeout"
NoHashMsg == "No transaction hash returned"
RejectMsg == "rejected by endpoint"
AllFailedMsg == "All RPC endpoints failed to broadcast transaction"
EncodeMsg == "encode failed"
FeeDataMsg == "getFeeData failed"
SignMsg == "signTransaction failed"
SimMsg == "simulation reverted"
NoError == ""

\* An address as the sequence of its characters.
TargetLower == <<"0", "x", "4", "4", "4", "4", "a">>
TargetUpper == <<"0", "X", "4", "4", "4", "4", "B">>
OtherPrefix == <<"0", "x", "4", "4", "4", "5", "a">>
OtherShort == <<"0", "x", "4", "4", "4">>
MatchingTokens == {TargetLower, TargetUpper}
OtherTokens == {OtherPrefix, OtherShort}
Tokens == MatchingTokens \cup OtherTokens

Prefix == <<"0", "x", "4", "4", "4", "4">>

LowerChar(c) ==
    CASE c = "X" -> "x"
      [] c = "A" -> "a"
      [] c = "B" -> "b"
      [] OTHER -> c

ToLowerCase(s) == [i \in 1..Len(s) |-> LowerChar(s[i])]

StartsWith(s, p) == Len(s) >= Len(p) /\ SubSeq(s, 1, Len(p)) = p

\* The predicate without the toLowerCase of line 244.
IsTargetToken_CaseSensitive(token) == StartsWith(token, Prefix)

IsTargetToken(token) == StartsWith(ToLowerCase(token), Prefix)

\* ---- state ----------------------------------------------------------------
VARIABLES
    currentNonce,       \* currentNonce.value
    pc,                 \* per dispatch instance: the await it is suspended at
    simulationSuccess,  \* per dispatch instance: the local simulationSuccess
    txNonce,            \* per dispatch instance: txRequest.nonce
    submissions,        \* per dispatch instance: the settled value of each endpoint task
    onWire,             \* per dispatch instance: endpoints whose request is unanswered
    firstSuccess,       \* per dispatch instance: hash of the success that arrived first
    result,             \* per dispatch instance: the value simulateAndBuyViaRouter returns
    ledger,             \* nonces of the account the network holds a transaction for
    externalTxs,        \* number of transactions sent outside this process
    landed,             \* dispatch instances whose transaction an endpoint accepted
    process,            \* the Node.js process: "running", "exited" or "crashed"
    refreshPc,          \* the interval callback: "idle" or "waiting" on getTransactionCount
    latestNonce,        \* the answer to getTransactionCount on its way back, or NoNonce
    nMatching,          \* TokenCreate events delivered with a token of MatchingTokens
    nOther              \* TokenCreate events delivered with a token of OtherTokens

vars == <<currentNonce, pc, simulationSuccess, txNonce, submissions, onWire,
          firstSuccess, result, ledger, externalTxs, landed, process, refreshPc,
          latestNonce, nMatching, nOther>>

dispatchVars == <<pc, simulationSuccess, txNonce, submissions, onWire,
                  firstSuccess, result>>

Pending == [settled |-> FALSE, success |-> FALSE, hash |-> NoHash, error |-> NoError]
Accepted(h) == [settled |-> TRUE, success |-> TRUE, hash |-> h, error |-> NoError]
Failure(msg) == [settled |-> TRUE, success |-> FALSE, hash |-> NoHash, error |-> msg]

NoResult == [success |-> FALSE, txHash |-> NoHash, error |-> NoError]
Success(h) == [success |-> TRUE, txHash |-> h, error |-> NoError]
Failed(msg) == [success |-> FALSE, txHash |-> NoHash, error |-> msg]

\* provider.getTransactionCount(address, 'pending'): the first nonce the
\* network holds no transaction for.
RECURSIVE FirstFree(_, _)
FirstFree(held, n) == IF n \in held THEN FirstFree(held, n + 1) ELSE n

PendingCount == FirstFree(ledger, 0)

Init ==
    /\ currentNonce = InitialNonce
    /\ pc = [d \in Dispatches |-> "Idle"]
    /\ simulationSuccess = [d \in Dispatches |-> FALSE]
    /\ txNonce = [d \in Dispatches |-> NoNonce]
    /\ submissions = [d \in Dispatches |-> <<>>]
    /\ onWire = [d \in Dispatches |-> {}]
    /\ firstSuccess = [d \in Dispatches |-> NoHash]
    /\ result = [d \in Dispatches |-> NoResult]
    /\ ledger = 0..(InitialNonce - 1)
    /\ externalTxs = 0
    /\ landed = {}
    /\ process = "running"
    /\ refreshPc = "idle"
    /\ latestNonce = NoNonce
    /\ nMatching = 0
    /\ nOther = 0

ledgerVars == <<ledger, externalTxs, landed>>

\* A process that never leaves: the SIGINT handler without line 295.
Alive_NoExit(p) == p \in {"running", "exited"}

\* Code runs while the process does: nothing does after process.exit(0) or
\* after an uncaught error.
Alive(p) == p = "running"

refreshVars == <<refreshPc, latestNonce>>
eventVars == <<nMatching, nOther>>

\* ---- the TokenCreate handler ------------------------------------------------
IdleDispatches == {d \in Dispatches : pc[d] = "Idle"}

\* simulateAndBuyViaRouter runs up to its first await (wallet.getAddress()).
\* The token only ends up in the calldata, which the model does not carry.
Spawn(d) ==
    /\ pc' = [pc EXCEPT ![d] = "GetAddress"]
    /\ UNCHANGED <<simulationSuccess, txNonce, submissions, onWire, firstSuccess, result>>

\* The handler awaiting the dispatch it started: no event is taken while an
\* instance is in flight.
HandleTokenCreate_Awaiting(t) ==
    /\ Alive(process)
    /\ \A d \in Dispatches : pc[d] \in {"Idle", "Succeeded", "Failed"}
    /\ t \in MatchingTokens => nMatching < MaxDispatch
    /\ t \in OtherTokens => nOther < MaxOther
    /\ nMatching' = IF t \in MatchingTokens THEN nMatching + 1 ELSE nMatching
    /\ nOther' = IF t \in OtherTokens THEN nOther + 1 ELSE nOther
    /\ IF ~IsTargetToken(t)
         THEN UNCHANGED dispatchVars
         ELSE /\ IdleDispatches # {}
              /\ Spawn(CHOOSE d \in IdleDispatches : \A o \in IdleDispatches : d <= o)
    /\ UNCHANGED <<currentNonce, ledgerVars, refreshVars, process>>

HandleTokenCreate(t) ==
    /\ Alive(process)
    /\ t \in MatchingTokens => nMatching < MaxDispatch
    /\ t \in OtherTokens => nOther < MaxOther
    /\ nMatching' = IF t \in MatchingTokens THEN nMatching + 1 ELSE nMatching
    /\ nOther' = IF t \in OtherTokens THEN nOther + 1 ELSE nOther
    /\ IF ~IsTargetToken(t)
         THEN UNCHANGED dispatchVars
         ELSE /\ IdleDispatches # {}
              /\ Spawn(CHOOSE d \in IdleDispatches : \A o \in IdleDispatches : d <= o)
    /\ UNCHANGED <<currentNonce, ledgerVars, refreshVars, process>>

\* ---- simulateAndBuyViaRouter --------------------------------------------------
\* The function without its outer try/catch: the error leaves it as a
\* rejected promise and no result value is returned.
Fail_Raise(d, msg) ==
    /\ pc' = [pc EXCEPT ![d] = "Raised"]
    /\ UNCHANGED result

\* The catch starting the instance over instead of returning.
Fail_Retry(d, msg) ==
    /\ pc' = [pc EXCEPT ![d] = "GetAddress"]
    /\ UNCHANGED result

\* The catch of line 211: the instance ends with {success: false, error}.
Fail(d, msg) ==
    /\ pc' = [pc EXCEPT ![d] = "Failed"]
    /\ result' = [result EXCEPT ![d] = Failed(msg)]

\* getAddress resolved: the parameters are encoded and provider.call is issued.
AddressResolved(d, encodeOk) ==
    /\ Alive(process)
    /\ pc[d] = "GetAddress"
    /\ IF encodeOk
         THEN /\ pc' = [pc EXCEPT ![d] = "Simulating"]
              /\ UNCHANGED result
         ELSE Fail(d, EncodeMsg)
    /\ UNCHANGED <<currentNonce, simulationSuccess, txNonce, submissions, onWire,
                   firstSuccess, ledgerVars, refreshVars, eventVars, process>>

\* The pipeline without the inner try/catch: a failed simulation reaches the
\* outer catch.
AfterSimulation_Fatal(simOk) == IF simOk THEN "FeeData" ELSE "Failed"

\* Where the pipeline goes once provider.call has settled: the inner catch
\* swallows a failure and getFeeData is issued either way.
AfterSimulation(simOk) == "FeeData"

\* provider.call settled (simOk: it returned and its result decoded).
SimulationDone(d, simOk) ==
    /\ Alive(process)
    /\ pc[d] = "Simulating"
    /\ simulationSuccess' = [simulationSuccess EXCEPT ![d] = simOk]
    /\ IF AfterSimulation(simOk) = "Failed"
         THEN Fail(d, SimMsg)
         ELSE /\ pc' = [pc EXCEPT ![d] = AfterSimulation(simOk)]
              /\ UNCHANGED result
    /\ UNCHANGED <<currentNonce, txNonce, submissions, onWire, firstSuccess,
                   ledgerVars, refreshVars, eventVars, process>>

\* getFeeData settled: txRequest is built, reading currentNonce.value, and
\* signTransaction is issued.
FeeDataDone(d, feeOk) ==
    /\ Alive(process)
    /\ pc[d] = "FeeData"
    /\ IF feeOk
         THEN /\ txNonce' = [txNonce EXCEPT ![d] = currentNonce]
              /\ pc' = [pc EXCEPT ![d] = "Signing"]
              /\ UNCHANGED result
         ELSE /\ Fail(d, FeeDataMsg)
              /\ UNCHANGED txNonce
    /\ UNCHANGED <<currentNonce, simulationSuccess, submissions, onWire, firstSuccess,
                   ledgerVars, refreshVars, eventVars, process>>

\* The increment of line 207 moved to a finally block: it runs on a failed
\* signature too.
SignDone_IncrementOnFailure(d, signOk) ==
    /\ Alive(process)
    /\ pc[d] = "Signing"
    /\ IF signOk
         THEN /\ pc' = [pc EXCEPT ![d] = "Broadcasting"]
              /\ submissions' = [submissions EXCEPT ![d] = [e \in Endpoints |-> Pending]]
              /\ onWire' = [onWire EXCEPT ![d] = Endpoints]
              /\ UNCHANGED <<result, currentNonce>>
         ELSE /\ Fail(d, SignMsg)
              /\ currentNonce' = currentNonce + 1
              /\ UNCHANGED <<submissions, onWire>>
    /\ UNCHANGED <<simulationSuccess, txNonce, firstSuccess,
                   ledgerVars, refreshVars, eventVars, process>>

\* signTransaction settled: submitRawTx starts one task per provider and
\* suspends on Promise.allSettled.
SignDone(d, signOk) ==
    /\ Alive(process)
    /\ pc[d] = "Signing"
    /\ IF signOk
         THEN /\ pc' = [pc EXCEPT ![d] = "Broadcasting"]
              /\ submissions' = [submissions EXCEPT ![d] = [e \in Endpoints |-> Pending]]
              /\ onWire' = [onWire EXCEPT ![d] = Endpoints]
              /\ UNCHANGED result
         ELSE /\ Fail(d, SignMsg)
              /\ UNCHANGED <<submissions, onWire>>
    /\ UNCHANGED <<currentNonce, simulationSuccess, txNonce, firstSuccess,
                   ledgerVars, refreshVars, eventVars, process>>

\* ---- submitRawTx ------------------------------------------------------------------
AllSettled(results) == \A e \in DOMAIN results : results[e].settled

\* The loop looking at the first provider's result only.
FirstSuccessful_OnlyFirst(results, i) ==
    IF Len(results) >= 1 /\ results[1].success /\ results[1].hash # NoHash THEN 1 ELSE 0

\* The loop of line 97: the first result, in index order, that is a success.
RECURSIVE FirstSuccessful(_, _)
FirstSuccessful(results, i) ==
    IF i > Len(results) THEN 0
    ELSE IF results[i].success /\ results[i].hash # NoHash THEN i
    ELSE FirstSuccessful(results, i + 1)

\* submitRawTx without the throw of line 113: it returns undefined.
SubmitRawTxOutcome_NoThrow(results) ==
    LET i == FirstSuccessful(results, 1)
    IN  IF i > 0
          THEN [ok |-> TRUE, hash |-> results[i].hash, error |-> NoError, causes |-> <<>>]
          ELSE [ok |-> TRUE, hash |-> NoHash, error |-> NoError, causes |-> <<>>]

\* What submitRawTx returns or throws once Promise.allSettled has resolved;
\* new Error(message) carries a message and no causes.
SubmitRawTxOutcome(results) ==
    LET i == FirstSuccessful(results, 1)
    IN  IF i > 0
          THEN [ok |-> TRUE, hash |-> results[i].hash, error |-> NoError, causes |-> <<>>]
          ELSE [ok |-> FALSE, hash |-> NoHash, error |-> AllFailedMsg, causes |-> <<>>]

\* May submitRawTx resume with these results?  It awaits Promise.allSettled.
Resumes(results) == AllSettled(results)

\* currentNonce.value after a broadcast that returned a hash (line 207).
AfterSuccess(value) == value + 1

\* The counter incremented on the failure path too.
AfterFailure_Increment(value) == value + 1

\* currentNonce.value after a broadcast that threw: line 207 is skipped.
AfterFailure(value) == value

\* simulateAndBuyViaRouter from the return of submitRawTx to its own return.
Finish(d, out) ==
    IF out.ok
      THEN /\ currentNonce' = AfterSuccess(currentNonce)
           /\ pc' = [pc EXCEPT ![d] = "Succeeded"]
           /\ result' = [result EXCEPT ![d] = Success(out.hash)]
      ELSE /\ Fail(d, out.error)
           /\ currentNonce' = AfterFailure(currentNonce)

\* Task e of dispatch d settles with outcome.  When that resumes submitRawTx,
\* its continuation and the one of simulateAndBuyViaRouter run in the same
\* microtask flush.
TaskSettles(d, e, outcome) ==
    LET results == [submissions[d] EXCEPT ![e] = outcome]
    IN  /\ submissions' = [submissions EXCEPT ![d] = results]
        /\ IF Resumes(results)
             THEN Finish(d, SubmitRawTxOutcome(results))
             ELSE UNCHANGED <<currentNonce, pc, result>>

\* The answer settling the task again although the timer already settled it.
Answer_LateSettles(d, e, outcome) ==
    /\ Alive(process)
    /\ e \in onWire[d]
    /\ onWire' = [onWire EXCEPT ![d] = @ \ {e}]
    /\ TaskSettles(d, e, outcome)

\* The answer of endpoint e arrives: it settles the task unless the timer won
\* the Promise.race before.
Answer(d, e, outcome) ==
    /\ Alive(process)
    /\ e \in onWire[d]
    /\ onWire' = [onWire EXCEPT ![d] = @ \ {e}]
    /\ IF submissions[d][e].settled
         THEN UNCHANGED <<currentNonce, pc, result, submissions>>
         ELSE TaskSettles(d, e, outcome)

\* Endpoint e accepts the transaction and answers with hash h.
EndpointAccept(d, e, h) ==
    /\ Answer(d, e, Accepted(h))
    /\ ledger' = ledger \cup {txNonce[d]}
    /\ landed' = landed \cup {d}
    /\ firstSuccess' = IF ~submissions[d][e].settled /\ firstSuccess[d] = NoHash
                         THEN [firstSuccess EXCEPT ![d] = h]
                         ELSE firstSuccess
    /\ UNCHANGED <<simulationSuccess, txNonce, externalTxs, refreshVars, eventVars, process>>

\* Endpoint e answers without a hash (line 81).
EndpointNoHash(d, e) ==
    /\ Answer(d, e, Failure(NoHashMsg))
    /\ UNCHANGED <<simulationSuccess, txNonce, firstSuccess, ledgerVars, refreshVars,
                   eventVars, process>>

\* broadcastTransaction rejects: a transport error or a rejection by the endpoint.
EndpointReject(d, e) ==
    /\ Answer(d, e, Failure(RejectMsg))
    /\ UNCHANGED <<simulationSuccess, txNonce, firstSuccess, ledgerVars, refreshVars,
                   eventVars, process>>

\* The task awaiting broadcastTransaction alone, without the race against a
\* timer: nothing ever fires.
EndpointTimeout_Never(d, e) ==
    /\ Alive(process)
    /\ pc[d] = "Broadcasting"
    /\ ~submissions[d][e].settled
    /\ FALSE
    /\ UNCHANGED vars

\* The timer of line 77 fires before the endpoint answered; the request stays
\* on the wire.
EndpointTimeout(d, e) ==
    /\ Alive(process)
    /\ pc[d] = "Broadcasting"
    /\ ~submissions[d][e].settled
    /\ TaskSettles(d, e, Failure(TimeoutMsg))
    /\ UNCHANGED <<simulationSuccess, txNonce, onWire, firstSuccess, ledgerVars,
                   refreshVars, eventVars, process>>

\* ---- the periodic nonce refresh -------------------------------------------------
RefreshTick ==
    /\ Alive(process)
    /\ refreshPc = "idle"
    /\ refreshPc' = "waiting"
    /\ UNCHANGED <<currentNonce, dispatchVars, ledgerVars, latestNonce, eventVars, process>>

\* The node computes its answer to getTransactionCount.
LedgerAnswers ==
    /\ Alive(process)
    /\ refreshPc = "waiting"
    /\ latestNonce = NoNonce
    /\ latestNonce' = PendingCount
    /\ UNCHANGED <<currentNonce, dispatchVars, ledgerVars, refreshPc, eventVars, process>>

\* The refresh assigning what it read without the comparison of line 283.
Refresh_Overwrite(value, external) == external

\* The comparison of line 283 written !== instead of >.
Refresh_Unequal(value, external) == IF external # value THEN external ELSE value

\* Lines 283-286.
Refresh(value, external) == IF external > value THEN external ELSE value

RefreshDone ==
    /\ Alive(process)
    /\ refreshPc = "waiting"
    /\ latestNonce # NoNonce
    /\ currentNonce' = Refresh(currentNonce, latestNonce)
    /\ refreshPc' = "idle"
    /\ latestNonce' = NoNonce
    /\ UNCHANGED <<dispatchVars, ledgerVars, eventVars, process>>

\* What an unhandled promise rejection leaves of the process: Node.js 15 and
\* later end it with an uncaught error, earlier versions only warn.
UnhandledRejection == {"crashed", "running"}

\* getTransactionCount rejects: the async callback of setInterval has no
\* try/catch, the promise it returned is rejected and nobody handles it.
RefreshFails ==
    /\ Alive(process)
    /\ refreshPc = "waiting"
    /\ latestNonce = NoNonce
    /\ refreshPc' = "idle"
    /\ process' \in UnhandledRejection
    /\ UNCHANGED <<currentNonce, dispatchVars, ledgerVars, latestNonce, eventVars>>

\* ---- shutdown --------------------------------------------------------------------
\* The SIGINT handler: provider.destroy() and process.exit(0).
Sigint ==
    /\ process = "running"
    /\ process' = "exited"
    /\ UNCHANGED <<currentNonce, dispatchVars, ledgerVars, refreshVars, eventVars>>

\* ---- the environment --------------------------------------------------------------
\* A transaction of the account submitted outside this process.
ExternalTx ==
    /\ Alive(process)
    /\ externalTxs < MaxExternal
    /\ externalTxs' = externalTxs + 1
    /\ ledger' = ledger \cup {PendingCount}
    /\ UNCHANGED landed
    /\ UNCHANGED <<currentNonce, dispatchVars, refreshVars, eventVars, process>>

Next ==
    \/ \E t \in Tokens : HandleTokenCreate(t)
    \/ \E d \in Dispatches, ok \in BOOLEAN : AddressResolved(d, ok)
    \/ \E d \in Dispatches, ok \in BOOLEAN : SimulationDone(d, ok)
    \/ \E d \in Dispatches, ok \in BOOLEAN : FeeDataDone(d, ok)
    \/ \E d \in Dispatches, ok \in BOOLEAN : SignDone(d, ok)
    \/ \E d \in Dispatches, e \in Endpoints, h \in Hashes : EndpointAccept(d, e, h)
    \/ \E d \in Dispatches, e \in Endpoints : EndpointNoHash(d, e)
    \/ \E d \in Dispatches, e \in Endpoints : EndpointReject(d, e)
    \/ \E d \in Dispatches, e \in Endpoints : EndpointTimeout(d, e)
    \/ RefreshTick
    \/ LedgerAnswers
    \/ RefreshDone
    \/ ExternalTx

\* The program while it runs: no SIGINT, and a ledger that answers every
\* getTransactionCount of the refresh.
Spec == Init /\ [][Next]_vars

\* The same system with at most one qualifying event: one dispatch instance,
\* one submitRawTx call, next to the refresh and the environment.
NextSingle ==
    \/ \E t \in Tokens : (t \in MatchingTokens => nMatching = 0) /\ HandleTokenCreate(t)
    \/ \E d \in Dispatches, ok \in BOOLEAN : AddressResolved(d, ok)
    \/ \E d \in Dispatches, ok \in BOOLEAN : SimulationDone(d, ok)
    \/ \E d \in Dispatches, ok \in BOOLEAN : FeeDataDone(d, ok)
    \/ \E d \in Dispatches, ok \in BOOLEAN : SignDone(d, ok)
    \/ \E d \in Dispatches, e \in Endpoints, h \in Hashes : EndpointAccept(d, e, h)
    \/ \E d \in Dispatches, e \in Endpoints : EndpointNoHash(d, e)
    \/ \E d \in Dispatches, e \in Endpoints : EndpointReject(d, e)
    \/ \E d \in Dispatches, e \in Endpoints : EndpointTimeout(d, e)
    \/ RefreshTick
    \/ LedgerAnswers
    \/ RefreshDone
    \/ ExternalTx

SpecSingle == Init /\ [][NextSingle]_vars

\* The timers of line 77 fire: setTimeout is served by the event loop as long
\* as the process runs.  Nothing obliges an endpoint to answer.
TimersFire == \A d \in Dispatches, e \in Endpoints : WF_vars(EndpointTimeout(d, e))

SpecSingleFair == SpecSingle /\ TimersFire

\* One qualifying event at most, with the two ways the process ends: a
\* refresh whose getTransactionCount rejects, and SIGINT.
NextProcess ==
    \/ \E t \in Tokens : (t \in MatchingTokens => nMatching = 0) /\ HandleTokenCreate(t)
    \/ \E d \in Dispatches, ok \in BOOLEAN : AddressResolved(d, ok)
    \/ \E d \in Dispatches, ok \in BOOLEAN : SimulationDone(d, ok)
    \/ \E d \in Dispatches, ok \in BOOLEAN : FeeDataDone(d, ok)
    \/ \E d \in Dispatches, ok \in BOOLEAN : SignDone(d, ok)
    \/ \E d \in Dispatches, e \in Endpoints, h \in Hashes : EndpointAccept(d, e, h)
    \/ \E d \in Dispatches, e \in Endpoints : EndpointNoHash(d, e)
    \/ \E d \in Dispatches, e \in Endpoints : EndpointReject(d, e)
    \/ \E d \in Dispatches, e \in Endpoints : EndpointTimeout(d, e)
    \/ RefreshTick
    \/ LedgerAnswers
    \/ RefreshDone
    \/ RefreshFails
    \/ Sigint
    \/ ExternalTx

SpecProcess == Init /\ [][NextProcess]_vars

TypeOK ==
    /\ currentNonce \in Nat
    /\ \A d \in Dispatches : pc[d] \in {"Idle", "GetAddress", "Simulating", "FeeData",
                                        "Signing", "Broadcasting", "Succeeded", "Failed"}

\* ---- vocabulary of the claims -------------------------------------------------
Launched == {d \in Dispatches : submissions[d] # <<>>}
Settled == {d \in Launched : AllSettled(submissions[d])}
Succeeded == {d \in Dispatches : pc[d] = "Succeeded"}
InFlight == {d \in Dispatches : pc[d] \in {"Signing", "Broadcasting"}}
Reserved == {d \in Dispatches : txNonce[d] # NoNonce}
Spawned == {d \in Dispatches : pc[d] # "Idle"}
SomeSuccess(d) == \E e \in Endpoints : submissions[d][e].success
AllFailed(d) == \A e \in Endpoints : submissions[d][e].settled /\ ~submissions[d][e].success
NoncesOf(S) == {txNonce[d] : d \in S}
Contiguous(N) == \A a \in N, b \in N : \A n \in a..b : n \in N

\* C1: the dispatch instances that are in flight together and have placed a
\* nonce in their transaction hold exactly the nonces initial, initial+1, ...,
\* initial+K-1: no value twice, no value skipped.
C1_ConcurrentNoncesExact ==
    (externalTxs = 0 /\ Reserved \subseteq InFlight)
        => NoncesOf(Reserved) = InitialNonce..(InitialNonce + Cardinality(Reserved) - 1)

C3_ResolvesAtFirstSuccess ==
    \A d \in Dispatches : pc[d] = "Broadcasting" => ~SomeSuccess(d)

\* C4 as stated: when every endpoint fails, the error submitRawTx throws
\* enumerates one cause per endpoint.
C4_ErrorEnumeratesCauses ==
    \A d \in Settled : AllFailed(d)
        => Len(SubmitRawTxOutcome(submissions[d]).causes) = NumEndpoints

\* C4 amended: when every endpoint fails, submitRawTx throws one generic error
\* that names no cause, the dispatch reports that message, and the causes
\* stay in the task results, one per endpoint.
C4_GenericErrorCausesInResults ==
    \A d \in Settled : AllFailed(d)
        => /\ SubmitRawTxOutcome(submissions[d])
                = [ok |-> FALSE, hash |-> NoHash, error |-> AllFailedMsg, causes |-> <<>>]
           /\ pc[d] = "Failed"
           /\ result[d] = Failed(AllFailedMsg)
           /\ Len(submissions[d]) = NumEndpoints
           /\ \A e \in Endpoints :
                 submissions[d][e].error \in {TimeoutMsg, NoHashMsg, RejectMsg}

C4_Witness ==
    \E d \in Settled :
        /\ AllFailed(d)
        /\ \E e1, e2 \in Endpoints : submissions[d][e1].error # submissions[d][e2].error

\* C5: a broadcast fails if and only if every endpoint task ended in a
\* failure; it succeeds as soon as one task succeeded, whatever the others did.
C5_FailsIffAllFail ==
    \A d \in Settled :
        /\ pc[d] \in {"Succeeded", "Failed"}
        /\ pc[d] = "Failed" <=> AllFailed(d)
        /\ pc[d] = "Succeeded" <=> SomeSuccess(d)
        /\ pc[d] = "Failed" => result[d] = Failed(AllFailedMsg)
        /\ pc[d] = "Succeeded" => result[d].success

C5_Witness ==
    \E d \in Settled :
        /\ pc[d] = "Succeeded"
        /\ submissions[d][1].error = RejectMsg
        /\ \E e \in Endpoints : submissions[d][e].error = TimeoutMsg \/ submissions[d][e].success

\* C6: the step of the refresh that applies the value e it read leaves
\* currentNonce.value at the maximum of its old value and e, never lower than
\* before, and applying e a second time would change nothing.
C6_RefreshIsMax ==
    [][(refreshPc = "waiting" /\ refreshPc' = "idle")
        => /\ latestNonce > currentNonce => currentNonce' = latestNonce
           /\ latestNonce <= currentNonce => currentNonce' = currentNonce
           /\ currentNonce' >= currentNonce
           /\ Refresh(currentNonce', latestNonce) = currentNonce']_vars

\* Only a refresh lifts the counter above the start value while no dispatch
\* has succeeded.
C6_Witness ==
    /\ currentNonce > InitialNonce
    /\ Succeeded = {}
    /\ refreshPc = "idle"

\* C7: with no transaction sent outside the process, the transactions that
\* were broadcast successfully carry pairwise distinct nonces with no value
\* skipped between them.
C7_BroadcastNoncesDistinctNoGap ==
    externalTxs = 0
        => /\ Cardinality(NoncesOf(Succeeded)) = Cardinality(Succeeded)
           /\ Contiguous(NoncesOf(Succeeded))

C9_SimulationAdvisory ==
    \A d \in Dispatches :
        /\ pc[d] = "Failed"
              => result[d].error \in {EncodeMsg, FeeDataMsg, SignMsg, AllFailedMsg}
        /\ (pc[d] = "Failed" /\ result[d].error = AllFailedMsg) => AllFailed(d)
        /\ pc[d] = "Succeeded"
              => result[d] = Success(SubmitRawTxOutcome(submissions[d]).hash)
        /\ d \in Launched /\ SomeSuccess(d) /\ AllSettled(submissions[d])
              => pc[d] = "Succeeded"

C9_Witness ==
    \E d \in Dispatches : pc[d] = "Succeeded" /\ ~simulationSuccess[d]

\* C10: the number of dispatch instances spawned is the number of events
\* delivered whose token, lower-cased, starts with 0x4444; events with other
\* tokens spawn none, so submitRawTx is never invoked on their behalf.
C10_OneDispatchPerMatch ==
    /\ Cardinality(Spawned) = nMatching
    /\ Cardinality(Launched) <= nMatching
    /\ nMatching = 0 => Launched = {}

C10_Witness ==
    /\ nMatching = 2
    /\ nOther >= 1
    /\ Cardinality(Spawned) = 2

\* ---- more vocabulary ---------------------------------------------------------------
Positions == {"Idle", "GetAddress", "Simulating", "FeeData", "Signing", "Broadcasting",
              "Succeeded", "Failed"}
Final == {"Succeeded", "Failed"}

\* C11: the step in which an instance fails while building, fetching fee
\* data or signing ends that instance in Failed, leaves currentNonce.value
\* and every other instance as they were, and starts no submitRawTx.
C11_EarlyFailureIsLocal ==
    [][\A d \in Dispatches :
          (pc[d] \in {"GetAddress", "FeeData", "Signing"} /\ pc'[d] = "Failed")
              => /\ currentNonce' = currentNonce
                 /\ ~result'[d].success
                 /\ result'[d].error \in {EncodeMsg, FeeDataMsg, SignMsg}
                 /\ submissions'[d] = <<>>
                 /\ onWire'[d] = {}
                 /\ \A o \in Dispatches \ {d} :
                       /\ pc'[o] = pc[o]
                       /\ result'[o] = result[o]
                       /\ txNonce'[o] = txNonce[o]
                       /\ submissions'[o] = submissions[o]]_vars

C11_Witness ==
    \E d, o \in Dispatches :
        /\ pc[d] = "Failed"
        /\ result[d].error = SignMsg
        /\ d \notin Launched
        /\ pc[o] = "Broadcasting"
        /\ currentNonce = InitialNonce

\* C12: an instance that has ended holds a result value, {success, txHash}
\* or {success: false, error}, and never left by raising; after an instance
\* has failed the handler still takes the next qualifying event.
C12_ReturnsResultKeepsObserving ==
    /\ \A d \in Dispatches : pc[d] \in Positions
    /\ \A d \in Dispatches : pc[d] = "Succeeded"
          => result[d].success /\ result[d].txHash \in Hashes
    /\ \A d \in Dispatches : pc[d] = "Failed"
          => ~result[d].success /\ result[d].error # NoError
    /\ ((\E d \in Dispatches : pc[d] = "Failed") /\ nMatching < MaxDispatch)
          => ENABLED HandleTokenCreate(TargetLower)

C12_Witness ==
    /\ pc[1] = "Failed"
    /\ result[1].error = AllFailedMsg
    /\ pc[2] = "Succeeded"

\* C14: the handler takes a qualifying event whatever the instances started
\* before are doing, so several instances are in flight at once.
C14_HandlerNeverWaits ==
    nMatching < MaxDispatch => ENABLED HandleTokenCreate(TargetUpper)

C14_Witness ==
    \A d \in Dispatches : pc[d] = "Broadcasting"

\* C13: a refresh whose getTransactionCount fails leaves currentNonce.value
\* as it was and the program running, so that later ticks and dispatch
\* instances go on.
C13_RefreshFailureKeepsRunning ==
    [][(refreshPc = "waiting" /\ refreshPc' = "idle" /\ latestNonce = NoNonce)
          => (currentNonce' = currentNonce /\ process' = "running")]_vars

\* C15: a timer that fires settles its own task only, and every broadcast
\* ends, with a hash or with an error, even if no endpoint ever answers.
C15_BroadcastTerminates ==
    /\ [][\A d \in Dispatches, e \in Endpoints :
            (/\ d \in Launched
             /\ ~submissions[d][e].settled
             /\ submissions'[d][e] = Failure(TimeoutMsg))
                => \A o \in Endpoints \ {e} : submissions'[d][o] = submissions[d][o]]_vars
    /\ \A d \in Dispatches : (pc[d] = "Broadcasting") ~> (pc[d] \in Final)

C15_Witness ==
    \E d \in Dispatches :
        /\ pc[d] = "Failed"
        /\ d \in Launched
        /\ \A e \in Endpoints : submissions[d][e] = Failure(TimeoutMsg)
        /\ onWire[d] = Endpoints

\* C16: once SIGINT has been handled no event is taken and nothing else
\* happens, whatever the instances in flight were doing; the handler itself
\* changes nothing but the process, which ends with exit(0).
C16_NothingAfterSigint ==
    /\ [](process = "exited" => \A t \in Tokens : ~ENABLED HandleTokenCreate(t))
    /\ [][process = "exited" => UNCHANGED vars]_vars
    /\ [][(process = "running" /\ process' = "exited")
            => UNCHANGED <<currentNonce, dispatchVars, ledgerVars, refreshVars, eventVars>>]_vars

C16_Witness ==
    /\ process = "exited"
    /\ pc[1] = "Broadcasting"
    /\ nOther < MaxOther

\* C17: once an instance has succeeded, an answer that arrives afterwards
\* changes neither its result, nor its recorded task outcomes, nor
\* currentNonce.value.
C17_LateOutcomesChangeNothing ==
    [][\A d \in Dispatches :
          pc[d] = "Succeeded"
              => /\ pc'[d] = "Succeeded"
                 /\ result'[d] = result[d]
                 /\ submissions'[d] = submissions[d]
                 /\ onWire'[d] # onWire[d] => currentNonce' = currentNonce]_vars

C17_Witness ==
    \E d \in Dispatches, e \in Endpoints :
        /\ pc[d] = "Succeeded"
        /\ submissions[d][e] = Failure(TimeoutMsg)
        /\ e \notin onWire[d]

\* The stage following each stage, and the stages an instance can fail from.
NextStage(p) ==
    CASE p = "Idle" -> "GetAddress"
      [] p = "GetAddress" -> "Simulating"
      [] p = "Simulating" -> "FeeData"
      [] p = "FeeData" -> "Signing"
      [] p = "Signing" -> "Broadcasting"
      [] p = "Broadcasting" -> "Succeeded"
      [] OTHER -> p

\* C18: an instance moves from each stage to the next one or, from a stage
\* that can throw, to Failed; Succeeded and Failed are final; the nonce is
\* read in the step that starts signing and in no other; the tasks are
\* started in the step that ends signing and in no other, and each endpoint
\* is sent the transaction in that step only.
C18_StagesInOrderOnce ==
    [][\A d \in Dispatches :
          /\ pc'[d] # pc[d]
                => \/ pc'[d] = NextStage(pc[d])
                   \/ /\ pc'[d] = "Failed"
                      /\ pc[d] \in {"GetAddress", "FeeData", "Signing", "Broadcasting"}
          /\ txNonce'[d] # txNonce[d]
                => pc[d] = "FeeData" /\ pc'[d] = "Signing" /\ txNonce[d] = NoNonce
          /\ (submissions[d] = <<>> /\ submissions'[d] # <<>>)
                => pc[d] = "Signing" /\ pc'[d] = "Broadcasting"
          /\ submissions[d] # <<>> => submissions'[d] # <<>>
          /\ ~(onWire'[d] \subseteq onWire[d])
                => pc[d] = "Signing" /\ pc'[d] = "Broadcasting"]_vars

C18_Witness ==
    \E d \in Dispatches :
        /\ pc[d] = "Failed"
        /\ d \in Launched
        /\ onWire[d] = {}

\* C19: an instance that failed after broadcasting had its transaction
\* accepted by no endpoint, and the nonce it used is free on the ledger.
C19_FailureMeansNotAccepted ==
    \A d \in Dispatches :
        (pc[d] = "Failed" /\ d \in Launched) => (d \notin landed /\ txNonce[d] \notin ledger)

\* C20: no step lowers currentNonce.value, and a step that changes it is
\* either the success of a broadcast, adding one, or a refresh adopting a
\* larger value read from the ledger.
C20_CounterMonotone ==
    [][/\ currentNonce' >= currentNonce
       /\ currentNonce' # currentNonce
            => \/ /\ currentNonce' = currentNonce + 1
                  /\ \E d \in Dispatches : pc[d] = "Broadcasting" /\ pc'[d] = "Succeeded"
               \/ /\ refreshPc = "waiting" /\ refreshPc' = "idle"
                  /\ latestNonce > currentNonce
                  /\ currentNonce' = latestNonce]_vars

C20_Witness ==
    /\ currentNonce >= InitialNonce + 2
    /\ \E d \in Dispatches : pc[d] = "Succeeded"
    /\ \E d \in Dispatches : pc[d] = "Failed" /\ d \in Launched

====
